---- MODULE Spec2Model ----
(***************************************************************************)
(* Model of the QR code generator App component (src/unnamed/part_000):    *)
(* the payload encoder generateQRData, the validation schemas, the         *)
(* handleGenerate pipeline (validate, encode, render, record), bulk        *)
(* uploads (handleCSVUpload) and the scanner card.                         *)
(*                                                                         *)
(* A JavaScript string is a sequence of UTF-16 code units (integers), so   *)
(* that startsWith, template concatenation and encodeURIComponent are      *)
(* computed as the engine computes them.                                   *)
(***************************************************************************)
EXTENDS Integers, Sequences, FiniteSets, TLC

VARIABLES
    activeTab,      \* useState<QRType>("url")
    qrOptions,      \* useState<QROptions>
    generatedQRs,   \* useState<GeneratedQR[]>: the history, newest first
    currentQR,      \* useState<string>: data URL shown in the preview
    isScanning,     \* useState(false)
    logoFile,       \* useState<File | null>(null)
    logoDataUrl,    \* useState<string>("")
    reading,        \* a FileReader started by handleLogoUpload has not loaded yet
    forms,          \* the six react-hook-form value sets, by QRType
    canvas,         \* what the hidden canvas (canvasRef) holds
    runs,           \* the handleGenerate calls made, in order, each with its position
    uploads,        \* the handleCSVUpload calls made, in order, each with its position
    pending,        \* getUserMedia promises of startScanning not settled yet
    streams,        \* the MediaStreams obtained, in order, each with its tracks' state
    srcObject,      \* videoRef.current.srcObject: a stream's number, 0 when there is none
    events,         \* user events handled so far
    inType,         \* encoder harness: the type tag under test
    inData,         \* encoder harness: the field set under test
    calls           \* encoder harness: the generateQRData calls made, in order

cameraVars == <<pending, streams, srcObject>>
appVars == <<activeTab, qrOptions, generatedQRs, currentQR, isScanning,
             logoFile, logoDataUrl, reading, forms, canvas, runs, uploads,
             pending, streams, srcObject>>
encVars == <<inType, inData, calls>>
harnessVars == <<events, inType, inData, calls>>
vars == <<activeTab, qrOptions, generatedQRs, currentQR, isScanning,
          logoFile, logoDataUrl, reading, forms, canvas, runs, uploads,
          pending, streams, srcObject, events, inType, inData, calls>>

(***************************************************************************)
(* Bounds of the model.                                                    *)
(***************************************************************************)
\* longest free-text value drawn for a field (code units)
MaxLen == 2
\* user events (clicks, edits, uploads) handled in one behaviour
MaxEvents == 5
\* user events handled in one behaviour with bulk uploads
MaxCsvEvents == 3
\* rows of bulk uploads whose rendering is rejected in one behaviour
MaxFailures == 1

(***************************************************************************)
(* JavaScript values.                                                      *)
(***************************************************************************)
\* the value undefined, where a string is expected (no code unit is negative)
Undefined == <<-1>>
\* the empty string ""
EmptyStr == <<>>

QRTypes == {"url", "wifi", "contact", "text", "email", "sms"}

\* all strings over alphabet A of at most n code units
Strs(A, n) == UNION {[1..k -> A] : k \in 0..n}

\* OrEmpty without the fallback for undefined: `${x}` alone
OrEmpty_NoFallback(x) ==
    IF x = Undefined
    THEN <<117, 110, 100, 101, 102, 105, 110, 101, 100>>
    ELSE x

\* x || "" for a string-or-undefined x
OrEmpty(x) == IF x = Undefined \/ x = EmptyStr THEN EmptyStr ELSE x

\* the truthiness test `x ? ... : ...` for a string-or-undefined x
Truthy(x) == x # Undefined /\ x # EmptyStr

\* `${x}` inside a template literal: undefined prints as the text "undefined"
Interpolate(x) ==
    IF x = Undefined
    THEN <<117, 110, 100, 101, 102, 105, 110, 101, 100>>
    ELSE x

\* String.prototype.startsWith(p)
startsWith(s, p) == Len(s) >= Len(p) /\ SubSeq(s, 1, Len(p)) = p

\* hidden is a boolean-or-undefined; `hidden ? a : b` takes a for true only
BoolValues == {"true", "false", "undefined"}
TruthyBool(b) == b = "true"

(***************************************************************************)
(* encodeURIComponent (ECMAScript Encode with the uriUnreserved set).      *)
(***************************************************************************)
\* A-Z a-z 0-9 - _ . ! ~ * ' ( )
uriUnreserved ==
    (65..90) \cup (97..122) \cup (48..57) \cup {45, 95, 46, 33, 126, 42, 39, 40, 41}

IsHighSurrogate(c) == c >= 55296 /\ c <= 56319   \* 0xD800..0xDBFF
IsLowSurrogate(c) == c >= 56320 /\ c <= 57343    \* 0xDC00..0xDFFF

\* one uppercase hexadecimal digit, as a code unit
HexDigit(n) == IF n < 10 THEN 48 + n ELSE 55 + n

\* "%XX" for one octet
PercentOctet(b) == <<37, HexDigit(b \div 16), HexDigit(b % 16)>>

\* the UTF-8 octets of a code point
UTF8(cp) ==
    IF cp < 128 THEN <<cp>>
    ELSE IF cp < 2048 THEN <<192 + (cp \div 64), 128 + (cp % 64)>>
    ELSE IF cp < 65536
         THEN <<224 + (cp \div 4096), 128 + ((cp \div 64) % 64), 128 + (cp % 64)>>
         ELSE <<240 + (cp \div 262144), 128 + ((cp \div 4096) % 64),
                128 + ((cp \div 64) % 64), 128 + (cp % 64)>>

RECURSIVE PercentAll(_)
PercentAll(octets) ==
    IF octets = <<>> THEN <<>>
    ELSE PercentOctet(Head(octets)) \o PercentAll(Tail(octets))

\* an outcome of a call: a returned string, or a thrown error
Returned(s) == [threw |-> FALSE, value |-> s]
Thrown == [threw |-> TRUE, value |-> <<>>]

\* Encode from code unit k on; a lone surrogate throws URIError
RECURSIVE EncodeFrom(_, _)
EncodeFrom(s, k) ==
    IF k > Len(s) THEN Returned(<<>>)
    ELSE LET c == s[k] IN
         IF c \in uriUnreserved
         THEN LET rest == EncodeFrom(s, k + 1) IN
              IF rest.threw THEN Thrown ELSE Returned(<<c>> \o rest.value)
         ELSE IF IsLowSurrogate(c) THEN Thrown
         ELSE IF IsHighSurrogate(c)
              THEN IF k + 1 > Len(s) \/ ~IsLowSurrogate(s[k + 1])
                   THEN Thrown
                   ELSE LET cp == (c - 55296) * 1024 + (s[k + 1] - 56320) + 65536
                            rest == EncodeFrom(s, k + 2)
                        IN IF rest.threw THEN Thrown
                           ELSE Returned(PercentAll(UTF8(cp)) \o rest.value)
         ELSE LET rest == EncodeFrom(s, k + 1) IN
              IF rest.threw THEN Thrown
              ELSE Returned(PercentAll(UTF8(c)) \o rest.value)

encodeURIComponent(s) == EncodeFrom(s, 1)

(***************************************************************************)
(* generateQRData (part_000 lines 124-157).                                *)
(***************************************************************************)
\* case "url" with a case-insensitive scheme test
case_url_AnyCase(data) ==
    LET url == data.url
        lower == [i \in 1..Len(url) |-> IF url[i] >= 65 /\ url[i] <= 90
                                         THEN url[i] + 32 ELSE url[i]]
    IN
    IF ~startsWith(lower, <<104, 116, 116, 112, 58, 47, 47>>)
       /\ ~startsWith(lower, <<104, 116, 116, 112, 115, 58, 47, 47>>)
    THEN Returned(<<104, 116, 116, 112, 115, 58, 47, 47>> \o url)
    ELSE Returned(url)

\* case "url" with the scheme tested without its two slashes
case_url_NoSlashes(data) ==
    LET url == data.url IN
    IF ~startsWith(url, <<104, 116, 116, 112, 58>>)             \* "http:"
       /\ ~startsWith(url, <<104, 116, 116, 112, 115, 58>>)     \* "https:"
    THEN Returned(<<104, 116, 116, 112, 115, 58, 47, 47>> \o url)
    ELSE Returned(url)

case_url(data) ==
    LET url == data.url IN
    IF ~startsWith(url, <<104, 116, 116, 112, 58, 47, 47>>)             \* "http://"
       /\ ~startsWith(url, <<104, 116, 116, 112, 115, 58, 47, 47>>)     \* "https://"
    THEN Returned(<<104, 116, 116, 112, 115, 58, 47, 47>> \o url)
    ELSE Returned(url)

\* backslash-escaping of \ ; , : as the WIFI: format asks for
RECURSIVE EscapeWifi(_)
EscapeWifi(s) ==
    IF s = <<>> THEN <<>>
    ELSE (IF Head(s) \in {92, 59, 44, 58} THEN <<92, Head(s)>> ELSE <<Head(s)>>)
         \o EscapeWifi(Tail(s))

\* case "wifi" with ssid and password escaped
case_wifi_Escaped(data) ==
    Returned(<<87, 73, 70, 73, 58, 84, 58>> \o Interpolate(data.security)
             \o <<59, 83, 58>> \o EscapeWifi(Interpolate(data.ssid))
             \o <<59, 80, 58>> \o EscapeWifi(OrEmpty(data.password))
             \o <<59, 72, 58>>
             \o (IF TruthyBool(data.hidden)
                 THEN <<116, 114, 117, 101>>
                 ELSE <<102, 97, 108, 115, 101>>)
             \o <<59, 59>>)

case_wifi(data) ==
    Returned(<<87, 73, 70, 73, 58, 84, 58>> \o Interpolate(data.security)  \* "WIFI:T:"
             \o <<59, 83, 58>> \o Interpolate(data.ssid)                   \* ";S:"
             \o <<59, 80, 58>> \o OrEmpty(data.password)                \* ";P:"
             \o <<59, 72, 58>>                                          \* ";H:"
             \o (IF TruthyBool(data.hidden)
                 THEN <<116, 114, 117, 101>>                            \* "true"
                 ELSE <<102, 97, 108, 115, 101>>)                       \* "false"
             \o <<59, 59>>)                                             \* ";;"

\* case "contact" that leaves out the lines of empty optional fields
case_contact_DropEmpty(data) ==
    LET line(tag, x) == IF Truthy(x) THEN tag \o x ELSE <<>> IN
    Returned(
        <<66, 69, 71, 73, 78, 58, 86, 67, 65, 82, 68, 10,
          86, 69, 82, 83, 73, 79, 78, 58, 51, 46, 48, 10, 70, 78, 58>>
        \o Interpolate(data.firstName) \o <<32>> \o OrEmpty(data.lastName)
        \o line(<<10, 79, 82, 71, 58>>, data.organization)
        \o line(<<10, 84, 69, 76, 58>>, data.phone)
        \o line(<<10, 69, 77, 65, 73, 76, 58>>, data.email)
        \o line(<<10, 85, 82, 76, 58>>, data.url)
        \o <<10, 69, 78, 68, 58, 86, 67, 65, 82, 68>>)

case_contact(data) ==
    Returned(
        \* "BEGIN:VCARD\nVERSION:3.0\nFN:"
        <<66, 69, 71, 73, 78, 58, 86, 67, 65, 82, 68, 10,
          86, 69, 82, 83, 73, 79, 78, 58, 51, 46, 48, 10, 70, 78, 58>>
        \o Interpolate(data.firstName) \o <<32>> \o OrEmpty(data.lastName)
        \o <<10, 79, 82, 71, 58>> \o OrEmpty(data.organization)         \* "\nORG:"
        \o <<10, 84, 69, 76, 58>> \o OrEmpty(data.phone)                \* "\nTEL:"
        \o <<10, 69, 77, 65, 73, 76, 58>> \o OrEmpty(data.email)        \* "\nEMAIL:"
        \o <<10, 85, 82, 76, 58>> \o OrEmpty(data.url)                  \* "\nURL:"
        \o <<10, 69, 78, 68, 58, 86, 67, 65, 82, 68>>)                  \* "\nEND:VCARD"

\* String.prototype.trim, for blanks and line feeds
RECURSIVE TrimStart(_)
TrimStart(s) ==
    IF s # <<>> /\ Head(s) \in {32, 10} THEN TrimStart(Tail(s)) ELSE s
RECURSIVE TrimEnd(_)
TrimEnd(s) ==
    IF s # <<>> /\ s[Len(s)] \in {32, 10} THEN TrimEnd(SubSeq(s, 1, Len(s) - 1)) ELSE s

\* case "text" that trims its input
case_text_Trimmed(data) == Returned(TrimEnd(TrimStart(data.text)))

case_text(data) == Returned(data.text)

case_email(data) ==
    LET subject == encodeURIComponent(OrEmpty(data.subject))
        body == encodeURIComponent(OrEmpty(data.body))
    IN IF subject.threw \/ body.threw THEN Thrown
       ELSE Returned(<<109, 97, 105, 108, 116, 111, 58>>                \* "mailto:"
                     \o Interpolate(data.email)
                     \o <<63, 115, 117, 98, 106, 101, 99, 116, 61>>     \* "?subject="
                     \o subject.value
                     \o <<38, 98, 111, 100, 121, 61>>                   \* "&body="
                     \o body.value)

case_sms(data) ==
    IF Truthy(data.message)
    THEN LET message == encodeURIComponent(data.message) IN
         IF message.threw THEN Thrown
         ELSE Returned(<<115, 109, 115, 58>> \o Interpolate(data.phone)    \* "sms:"
                       \o <<63, 98, 111, 100, 121, 61>>                 \* "?body="
                       \o message.value)
    ELSE Returned(<<115, 109, 115, 58>> \o Interpolate(data.phone))

\* generateQRData that gives up (the default branch) unless the size option
\* still has its initial value: a result that depends on component state
generateQRData_BySize(type, data) ==
    IF qrOptions.size # 256 THEN Returned(EmptyStr)
    ELSE CASE type = "url" -> case_url(data)
           [] type = "wifi" -> case_wifi(data)
           [] type = "contact" -> case_contact(data)
           [] type = "text" -> case_text(data)
           [] type = "email" -> case_email(data)
           [] type = "sms" -> case_sms(data)
           [] OTHER -> Returned(EmptyStr)

generateQRData(type, data) ==
    CASE type = "url" -> case_url(data)
      [] type = "wifi" -> case_wifi(data)
      [] type = "contact" -> case_contact(data)
      [] type = "text" -> case_text(data)
      [] type = "email" -> case_email(data)
      [] type = "sms" -> case_sms(data)
      [] OTHER -> Returned(EmptyStr)

(***************************************************************************)
(* Validation schemas (src/schemas, part_001), as zod evaluates them.     *)
(***************************************************************************)
Letters == (65..90) \cup (97..122)
Alnum == Letters \cup (48..57)

\* a value z.string() accepts
IsString(x) == x # Undefined

\* url-schema.ts line 18: ^[a-zA-Z0-9]([a-zA-Z0-9-]*[a-zA-Z0-9])?(\.[...])*$
\* (labels of letters, digits and inner hyphens, separated by single dots)
domainPattern(s) ==
    /\ Len(s) >= 1
    /\ s[1] \in Alnum
    /\ s[Len(s)] \in Alnum
    /\ \A i \in 1..Len(s) :
          \/ s[i] \in Alnum
          \/ s[i] = 45
          \/ s[i] = 46 /\ i > 1 /\ i < Len(s) /\ s[i - 1] \in Alnum /\ s[i + 1] \in Alnum

\* index of the ':' that ends a URL scheme (ALPHA *(ALPHA / DIGIT / + - .)), or 0
SchemeEnd(s) ==
    LET ends == {i \in 2..Len(s) :
                    /\ s[i] = 58
                    /\ s[1] \in Letters
                    /\ \A j \in 2..(i - 1) : s[j] \in Alnum \cup {43, 45, 46}}
    IN IF ends = {} THEN 0 ELSE CHOOSE i \in ends : \A j \in ends : i <= j

\* ASCII lower case of a code unit
Lower(c) == IF c >= 65 /\ c <= 90 THEN c + 32 ELSE c

\* new URL(s) does not throw.  Computed for the strings of this model: a scheme,
\* then letters, '.', '-' and '/' (no credentials, port, query, fragment,
\* digits or blanks).  An http(s) URL needs a non-empty host after its slashes;
\* a URL of another scheme parses with any path; without a scheme there is no
\* base URL to resolve against and the constructor throws.
URLParses(s) ==
    LET e == SchemeEnd(s) IN
    /\ e > 0
    /\ LET scheme == [i \in 1..(e - 1) |-> Lower(s[i])]
           rest == SubSeq(s, e + 1, Len(s))
       IN IF scheme \in {<<104, 116, 116, 112>>, <<104, 116, 116, 112, 115>>}
          THEN \E i \in 1..Len(rest) : rest[i] # 47 /\ rest[i] # 92
          ELSE TRUE

\* z.string().email(): zod's pattern
\* ^(?!\.)(?!.*\.\.)([A-Z0-9_'+\-\.]*)[A-Z0-9_+-]@([A-Z0-9][A-Z0-9\-]*\.)+[A-Z]{2,}$ /i
IsEmail(s) ==
    /\ IsString(s)
    /\ \E k \in 2..Len(s) :
          /\ s[k] = 64
          /\ s[1] # 46
          /\ \A i \in 1..(Len(s) - 1) : ~(s[i] = 46 /\ s[i + 1] = 46)
          /\ \A i \in 1..(k - 1) : s[i] \in Alnum \cup {95, 39, 43, 45, 46}
          /\ s[k - 1] \in Alnum \cup {95, 43, 45}
          /\ \E d \in (k + 2)..(Len(s) - 2) :
                /\ s[d] = 46
                /\ \A i \in (d + 1)..Len(s) : s[i] \in Letters
                /\ s[k + 1] \in Alnum
                /\ \A i \in (k + 1)..(d - 1) :
                      \/ s[i] \in Alnum \cup {45}
                      \/ s[i] = 46 /\ s[i + 1] \in Alnum

\* url-schema.ts: min(1) and the refinement
urlSchema(data) ==
    /\ IsString(data.url)
    /\ Len(data.url) >= 1
    /\ IF startsWith(data.url, <<104, 116, 116, 112, 58, 47, 47>>)
          \/ startsWith(data.url, <<104, 116, 116, 112, 115, 58, 47, 47>>)
       THEN URLParses(data.url)
       ELSE domainPattern(data.url)

wifiSchema(data) ==
    /\ IsString(data.ssid) /\ Len(data.ssid) >= 1
    /\ data.security \in {<<87, 80, 65>>, <<87, 69, 80>>,            \* 'WPA', 'WEP'
                          <<110, 111, 112, 97, 115, 115>>}           \* 'nopass'
    /\ data.hidden \in BoolValues

contactSchema(data) ==
    /\ IsString(data.firstName) /\ Len(data.firstName) >= 1
    /\ data.email = Undefined \/ data.email = EmptyStr \/ IsEmail(data.email)
    /\ data.url = Undefined \/ data.url = EmptyStr \/ URLParses(data.url)

textSchema(data) == IsString(data.text) /\ Len(data.text) >= 1

emailSchema(data) == IsEmail(data.email)

smsSchema(data) == IsString(data.phone) /\ Len(data.phone) >= 1

\* the resolver of forms[type]
Valid(type, data) ==
    CASE type = "url" -> urlSchema(data)
      [] type = "wifi" -> wifiSchema(data)
      [] type = "contact" -> contactSchema(data)
      [] type = "text" -> textSchema(data)
      [] type = "email" -> emailSchema(data)
      [] type = "sms" -> smsSchema(data)

(***************************************************************************)
(* Field sets drawn for the encoder.  Every text field ranges over all     *)
(* strings of at most MaxLen code units of an alphabet chosen to hold the  *)
(* characters its format treats specially.                                 *)
(***************************************************************************)
Optional(S) == S \cup {Undefined}

\* "", "http://", "https://", "HTTP://", "Https://", "http:/", "ttp://"
UrlPrefixes ==
    { <<>>,
      <<104, 116, 116, 112, 58, 47, 47>>,
      <<104, 116, 116, 112, 115, 58, 47, 47>>,
      <<72, 84, 84, 80, 58, 47, 47>>,
      <<72, 116, 116, 112, 115, 58, 47, 47>>,
      <<104, 116, 116, 112, 58, 47>>,
      <<116, 116, 112, 58, 47, 47>> }

\* a . /
UrlAlphabet == {97, 46, 47}
\* a ; backslash
SsidAlphabet == {97, 59, 92}
\* a : ,
PasswordAlphabet == {97, 58, 44}
\* a, space
NameAlphabet == {97, 32}
\* a, space, line feed, a lone high surrogate
TextAlphabet == {97, 32, 10, 55357}
\* a, space, e-acute (2 octets), high surrogate D83D, low surrogate DE00
SubjectAlphabet == {97, 32, 233, 55357, 56832}
\* ampersand, euro sign (3 octets)
BodyAlphabet == {38, 8364}
\* + 1
PhoneAlphabet == {43, 49}

Securities == {<<87, 80, 65>>, <<87, 69, 80>>, <<110, 111, 112, 97, 115, 115>>}

\* "a@b.cc" and "a b"
EmailSamples == {<<97, 64, 98, 46, 99, 99>>, <<97, 32, 98>>}

FieldSets(type) ==
    CASE type = "url" ->
           {[url |-> p \o t] : p \in UrlPrefixes, t \in Strs(UrlAlphabet, MaxLen)}
      [] type = "wifi" ->
           [ssid : Strs(SsidAlphabet, MaxLen),
            password : Optional(Strs(PasswordAlphabet, MaxLen)),
            security : Securities,
            hidden : BoolValues]
      [] type = "contact" ->
           [firstName : Strs(NameAlphabet, MaxLen),
            lastName : Optional({EmptyStr, <<98>>}),
            phone : Optional({EmptyStr, <<49>>}),
            email : Optional({EmptyStr, <<97, 64, 98, 46, 99, 99>>}),
            organization : Optional({EmptyStr, <<111>>}),
            url : Optional({EmptyStr, <<104, 116, 116, 112, 58, 47, 47, 97>>})]
      [] type = "text" -> [text : Strs(TextAlphabet, MaxLen)]
      [] type = "email" ->
           [email : EmailSamples,
            subject : Optional(Strs(SubjectAlphabet, MaxLen)),
            body : Optional(Strs(BodyAlphabet, MaxLen))]
      [] type = "sms" ->
           [phone : Strs(PhoneAlphabet, MaxLen),
            message : Optional(Strs(SubjectAlphabet, MaxLen))]

\* the optional fields of each schema
OptionalFields(type) ==
    CASE type = "wifi" -> {"password", "hidden"}
      [] type = "contact" -> {"lastName", "phone", "email", "organization", "url"}
      [] type = "email" -> {"subject", "body"}
      [] type = "sms" -> {"message"}
      [] OTHER -> {}

\* whether field f of data is absent, and data with f present but empty
IsAbsent(data, f) == IF f = "hidden" THEN data[f] = "undefined" ELSE data[f] = Undefined
WithEmpty(data, f) ==
    [data EXCEPT ![f] = IF f = "hidden" THEN "false" ELSE EmptyStr]

(***************************************************************************)
(* Application state (part_000 lines 50-119).                              *)
(***************************************************************************)
\* the empty string, where a data URL is expected
NoDataUrl == [empty |-> TRUE]

\* slider positions drawn for the size option
Sizes == {256, 512}

defaultValues ==
    [url |-> [url |-> EmptyStr],
     wifi |-> [ssid |-> EmptyStr, password |-> EmptyStr,
               security |-> <<87, 80, 65>>, hidden |-> "false"],
     contact |-> [firstName |-> EmptyStr, lastName |-> EmptyStr, phone |-> EmptyStr,
                  email |-> EmptyStr, organization |-> EmptyStr, url |-> EmptyStr],
     text |-> [text |-> EmptyStr],
     email |-> [email |-> EmptyStr, subject |-> EmptyStr, body |-> EmptyStr],
     sms |-> [phone |-> EmptyStr, message |-> EmptyStr]]

AppInit ==
    /\ activeTab = "url"
    /\ qrOptions = [size |-> 256, errorCorrectionLevel |-> "M",
                    foregroundColor |-> "#000000", backgroundColor |-> "#ffffff",
                    margin |-> 4]
    /\ generatedQRs = <<>>
    /\ currentQR = NoDataUrl
    /\ isScanning = FALSE
    /\ logoFile = "null"
    /\ logoDataUrl = ""
    /\ reading = FALSE
    /\ forms = defaultValues
    /\ canvas = [qr |-> <<>>, logo |-> FALSE]
    /\ runs = <<>>
    /\ uploads = <<>>
    /\ pending = 0
    /\ streams = <<>>
    /\ srcObject = 0

\* the size slider's onValueChange (line 750)
setSize ==
    /\ \E value \in Sizes \ {qrOptions.size} :
          qrOptions' = [qrOptions EXCEPT !.size = value]
    /\ UNCHANGED <<activeTab, generatedQRs, currentQR, isScanning, cameraVars, uploads, logoFile,
                   logoDataUrl, reading, forms, canvas, runs>>

\* handleLogoUpload (lines 245-255): a chosen file is kept and read
handleLogoUpload ==
    /\ logoFile' = "file"
    /\ reading' = TRUE
    /\ UNCHANGED <<activeTab, qrOptions, generatedQRs, currentQR, isScanning, cameraVars, uploads,
                   logoDataUrl, forms, canvas, runs>>

\* reader.onload (lines 250-252)
readerOnload ==
    /\ reading
    /\ reading' = FALSE
    /\ logoDataUrl' = "logo"
    /\ UNCHANGED <<activeTab, qrOptions, generatedQRs, currentQR, isScanning, cameraVars, uploads,
                   logoFile, forms, canvas, runs>>

(***************************************************************************)
(* The encoder on its own: a type and a field set are drawn, and           *)
(* generateQRData is called on them while the application state changes.   *)
(***************************************************************************)
EncInit ==
    /\ AppInit
    /\ events = 0
    /\ inType \in QRTypes
    /\ inData \in FieldSets(inType)
    /\ calls = <<>>

\* a call that writes the prefixed url back into the field set it was given
Encode_WritesBack ==
    /\ Len(calls) = 0
    /\ calls' = <<[kind |-> "first", type |-> inType, data |-> inData,
                   out |-> generateQRData(inType, inData)]>>
    /\ inData' = IF inType = "url" /\ ~generateQRData(inType, inData).threw
                 THEN [url |-> generateQRData(inType, inData).value]
                 ELSE inData
    /\ UNCHANGED <<events, inType>>
    /\ UNCHANGED appVars

\* the call generateQRData(inType, inData)
Encode ==
    /\ Len(calls) = 0
    /\ calls' = <<[kind |-> "first", type |-> inType, data |-> inData,
                   out |-> generateQRData(inType, inData)]>>
    /\ UNCHANGED <<events, inType, inData>>
    /\ UNCHANGED appVars

\* a second call with the identical input
EncodeAgain ==
    /\ Len(calls) = 1
    /\ calls' = Append(calls, [kind |-> "again", type |-> inType, data |-> inData,
                               out |-> generateQRData(inType, inData)])
    /\ UNCHANGED <<events, inType, inData>>
    /\ UNCHANGED appVars

\* a second call in which one absent optional field is present and empty
EncodeWithEmpty ==
    /\ Len(calls) = 1
    /\ \E f \in OptionalFields(inType) :
          /\ IsAbsent(inData, f)
          /\ calls' = Append(calls, [kind |-> "empty", type |-> inType,
                                     data |-> WithEmpty(inData, f),
                                     out |-> generateQRData(inType, WithEmpty(inData, f))])
    /\ UNCHANGED <<events, inType, inData>>
    /\ UNCHANGED appVars

\* a second call on the first call's output (url and text take one string)
ReEncode ==
    /\ Len(calls) = 1
    /\ inType \in {"url", "text"}
    /\ ~calls[1].out.threw
    /\ LET data == IF inType = "url" THEN [url |-> calls[1].out.value]
                                     ELSE [text |-> calls[1].out.value]
       IN calls' = Append(calls, [kind |-> "re", type |-> inType, data |-> data,
                                  out |-> generateQRData(inType, data)])
    /\ UNCHANGED <<events, inType, inData>>
    /\ UNCHANGED appVars

EncNext ==
    \/ Encode
    \/ EncodeAgain
    \/ EncodeWithEmpty
    \/ ReEncode
    \/ setSize /\ UNCHANGED harnessVars
    \/ handleLogoUpload /\ UNCHANGED harnessVars
    \/ readerOnload /\ UNCHANGED harnessVars

SpecEnc == EncInit /\ [][EncNext]_vars

(***************************************************************************)
(* The application: forms, handleGenerate, rendering, history.             *)
(*                                                                         *)
(* A handleGenerate call is a run with a position: it waits at             *)
(* `await form.trigger()`, at `await QRCode.toDataURL()` and, with a logo, *)
(* at the two image loads of overlayLogo.  The schemas are synchronous     *)
(* (no async refinement), so form.trigger() settles in the promise jobs of *)
(* the task that called it: no event handler runs while a run is at        *)
(* "validating".  Image loads and rendering settle in later tasks.         *)
(***************************************************************************)
\* the field sets a user is taken to type into each form
FormValues(type) ==
    CASE type = "url" ->
           {[url |-> <<97, 46, 97>>],                           \* "a.a"
            [url |-> <<104, 116, 116, 112, 58, 47, 47, 97>>],   \* "http://a"
            [url |-> <<104, 116, 116, 112, 58, 47, 47>>]}       \* "http://"
      [] type = "wifi" ->
           {[ssid |-> <<97>>, password |-> EmptyStr,
             security |-> <<87, 69, 80>>, hidden |-> "true"]}
      [] type = "contact" ->
           {[firstName |-> <<97>>, lastName |-> EmptyStr, phone |-> EmptyStr,
             email |-> EmptyStr, organization |-> EmptyStr, url |-> EmptyStr],
            [firstName |-> <<97>>, lastName |-> EmptyStr, phone |-> EmptyStr,
             email |-> EmptyStr, organization |-> EmptyStr, url |-> <<97>>]}
      [] type = "text" -> {[text |-> <<97, 32>>]}
      [] type = "email" ->
           {[email |-> <<97, 64, 98, 46, 99, 99>>, subject |-> <<32>>, body |-> EmptyStr],
            [email |-> <<97, 64, 98, 46, 99, 99>>, subject |-> <<55357>>, body |-> EmptyStr],
            [email |-> <<97, 32, 98>>, subject |-> EmptyStr, body |-> EmptyStr]}
      [] type = "sms" -> {[phone |-> <<43, 49>>, message |-> <<97>>]}

\* no run is between form.trigger() and its continuation
NoneValidating == \A i \in 1..Len(runs) : runs[i].pos # "validating"

\* the first n elements of a list: prev.slice(0, n)
slice0(list, n) == SubSeq(list, 1, IF Len(list) < n THEN Len(list) ELSE n)

\* a field of the active tab's form is edited (only the active tab is mounted)
editForm ==
    /\ \E v \in FormValues(activeTab) \cup {defaultValues[activeTab]} :
          /\ v # forms[activeTab]
          /\ forms' = [forms EXCEPT ![activeTab] = v]
    /\ UNCHANGED <<activeTab, qrOptions, generatedQRs, currentQR, isScanning, cameraVars, uploads,
                   logoFile, logoDataUrl, reading, canvas, runs>>

\* Tabs onValueChange (line 344)
setActiveTab ==
    /\ \E value \in QRTypes \ {activeTab} : activeTab' = value
    /\ UNCHANGED <<qrOptions, generatedQRs, currentQR, isScanning, cameraVars, uploads, logoFile,
                   logoDataUrl, reading, forms, canvas, runs>>

\* handleGenerate(type), lines 216-218: up to `await form.trigger()`.  The
\* Generate button of a type is inside that type's tab; the callback closes
\* over the qrOptions and logoDataUrl of the render it was made in
\* (useCallback deps, line 242).
handleGenerate ==
    /\ runs' = Append(runs,
          [type |-> activeTab, pos |-> "validating",
           isValid |-> Valid(activeTab, forms[activeTab]),
           options |-> qrOptions, logo |-> logoDataUrl,
           formData |-> <<>>, encoded |-> FALSE, qrData |-> Returned(EmptyStr),
           rendered |-> FALSE, dataUrl |-> NoDataUrl, result |-> ""])
    /\ UNCHANGED <<activeTab, qrOptions, generatedQRs, currentQR, isScanning, cameraVars, uploads,
                   logoFile, logoDataUrl, reading, forms, canvas>>

\* the continuation of a run after validation that calls the encoder whether
\* or not the form was valid
AfterValidation_NoCheck(i) ==
    LET r == runs[i]
        formData == forms[r.type]
        qrData == generateQRData(r.type, formData)
    IN runs' = [runs EXCEPT ![i] =
                 [r EXCEPT !.formData = formData, !.encoded = TRUE, !.qrData = qrData,
                           !.pos = IF qrData.threw THEN "done" ELSE "rendering",
                           !.rendered = ~qrData.threw,
                           !.result = IF qrData.threw THEN "rejected" ELSE ""]]

\* the continuation of a run after validation that tidies the encoded string
\* (trims it) before handing it to generateQR
AfterValidation_Trimmed(i) ==
    LET r == runs[i] IN
    IF ~r.isValid
    THEN runs' = [runs EXCEPT ![i] = [r EXCEPT !.pos = "done", !.result = "invalid"]]
    ELSE LET formData == forms[r.type]
             out == generateQRData(r.type, formData)
             qrData == IF out.threw THEN out ELSE Returned(TrimEnd(TrimStart(out.value)))
         IN runs' = [runs EXCEPT ![i] =
              [r EXCEPT !.formData = formData, !.encoded = TRUE, !.qrData = qrData,
                        !.pos = IF qrData.threw THEN "done" ELSE "rendering",
                        !.rendered = ~qrData.threw,
                        !.result = IF qrData.threw THEN "rejected" ELSE ""]]

\* lines 220-226 for run i: return if invalid; else read the values, encode
\* them and call generateQR, up to `await QRCode.toDataURL()`.  The encoder is
\* called outside the try block: if it throws, handleGenerate rejects.
AfterValidation(i) ==
    LET r == runs[i] IN
    IF ~r.isValid
    THEN runs' = [runs EXCEPT ![i] = [r EXCEPT !.pos = "done", !.result = "invalid"]]
    ELSE LET formData == forms[r.type]
             qrData == generateQRData(r.type, formData)
         IN runs' = [runs EXCEPT ![i] =
              [r EXCEPT !.formData = formData, !.encoded = TRUE, !.qrData = qrData,
                        !.pos = IF qrData.threw THEN "done" ELSE "rendering",
                        !.rendered = ~qrData.threw,
                        !.result = IF qrData.threw THEN "rejected" ELSE ""]]

validationSettled ==
    /\ \E i \in 1..Len(runs) :
          /\ runs[i].pos = "validating"
          /\ AfterValidation(i)
    /\ UNCHANGED <<activeTab, qrOptions, generatedQRs, currentQR, isScanning, cameraVars, uploads,
                   logoFile, logoDataUrl, reading, forms, canvas>>

\* the update of a finished run that keeps the picture but not the payload
Finish_NoData(i, dataUrl) ==
    LET r == runs[i]
        newQR == [type |-> r.type, data |-> EmptyStr, dataUrl |-> dataUrl,
                  options |-> r.options]
    IN /\ currentQR' = dataUrl
       /\ generatedQRs' = <<newQR>> \o slice0(generatedQRs, 9)
       /\ runs' = [runs EXCEPT ![i] =
                     [r EXCEPT !.pos = "done", !.result = "ok", !.dataUrl = dataUrl]]

\* the update of a finished run that keeps ten of the previous entries
Finish_KeepTen(i, dataUrl) ==
    LET r == runs[i]
        newQR == [type |-> r.type, data |-> r.qrData.value, dataUrl |-> dataUrl,
                  options |-> r.options]
    IN /\ currentQR' = dataUrl
       /\ generatedQRs' = <<newQR>> \o slice0(generatedQRs, 10)
       /\ runs' = [runs EXCEPT ![i] =
                     [r EXCEPT !.pos = "done", !.result = "ok", !.dataUrl = dataUrl]]

\* the update of a finished run that writes its entry over the head of the
\* history: the entry of the run that completed before it is lost
Finish_ReplaceHead(i, dataUrl) ==
    LET r == runs[i]
        newQR == [type |-> r.type, data |-> r.qrData.value, dataUrl |-> dataUrl,
                  options |-> r.options]
    IN /\ currentQR' = dataUrl
       /\ generatedQRs' = <<newQR>> \o slice0(IF generatedQRs = <<>> THEN <<>> ELSE Tail(generatedQRs), 9)
       /\ runs' = [runs EXCEPT ![i] =
                     [r EXCEPT !.pos = "done", !.result = "ok", !.dataUrl = dataUrl]]

\* lines 227-237 for run i: the preview and the history are updated
Finish(i, dataUrl) ==
    LET r == runs[i]
        newQR == [type |-> r.type, data |-> r.qrData.value, dataUrl |-> dataUrl,
                  options |-> r.options]
    IN /\ currentQR' = dataUrl
       /\ generatedQRs' = <<newQR>> \o slice0(generatedQRs, 9)
       /\ runs' = [runs EXCEPT ![i] =
                     [r EXCEPT !.pos = "done", !.result = "ok", !.dataUrl = dataUrl]]

\* QRCode.toDataURL settling for run i with a catch block that clears the
\* preview when rendering fails
toDataURLSettled_ClearsPreview ==
    \E i \in 1..Len(runs) :
       /\ runs[i].pos = "rendering"
       /\ \/ /\ runs' = [runs EXCEPT ![i] =
                          [runs[i] EXCEPT !.pos = "done", !.result = "failed"]]
             /\ currentQR' = NoDataUrl
             /\ UNCHANGED <<generatedQRs, canvas>>
          \/ LET dataUrl == [qr |-> <<runs[i].qrData.value, runs[i].options>>,
                             logo |-> FALSE]
             IN IF runs[i].logo # ""
                THEN /\ canvas' = [qr |-> <<>>, logo |-> FALSE]
                     /\ runs' = [runs EXCEPT ![i] =
                                  [runs[i] EXCEPT !.pos = "qrImage", !.dataUrl = dataUrl]]
                     /\ UNCHANGED <<generatedQRs, currentQR>>
                ELSE /\ Finish(i, dataUrl)
                     /\ UNCHANGED canvas
       /\ UNCHANGED <<activeTab, qrOptions, isScanning, cameraVars, uploads, logoFile,
                      logoDataUrl, reading, forms>>

\* QRCode.toDataURL settles for run i (lines 171-182, 238-240): a rejection is
\* logged twice and ends the run; with a logo and the canvas mounted,
\* overlayLogo starts (lines 186-193, 211), which resizes, so clears, the canvas
toDataURLSettled ==
    \E i \in 1..Len(runs) :
       /\ runs[i].pos = "rendering"
       /\ \/ /\ runs' = [runs EXCEPT ![i] =
                          [runs[i] EXCEPT !.pos = "done", !.result = "failed"]]
             /\ UNCHANGED <<generatedQRs, currentQR, canvas>>
          \/ LET dataUrl == [qr |-> <<runs[i].qrData.value, runs[i].options>>,
                             logo |-> FALSE]
             IN IF runs[i].logo # ""
                THEN /\ canvas' = [qr |-> <<>>, logo |-> FALSE]
                     /\ runs' = [runs EXCEPT ![i] =
                                  [runs[i] EXCEPT !.pos = "qrImage", !.dataUrl = dataUrl]]
                     /\ UNCHANGED <<generatedQRs, currentQR>>
                ELSE /\ Finish(i, dataUrl)
                     /\ UNCHANGED canvas
       /\ UNCHANGED <<activeTab, qrOptions, isScanning, cameraVars, uploads, logoFile, logoDataUrl,
                      reading, forms>>

\* qrImage.onload for run i (lines 194-210): the QR image is drawn and the logo
\* image starts to load
qrImageOnload ==
    \E i \in 1..Len(runs) :
       /\ runs[i].pos = "qrImage"
       /\ canvas' = [canvas EXCEPT !.qr = runs[i].dataUrl.qr]
       /\ runs' = [runs EXCEPT ![i] = [runs[i] EXCEPT !.pos = "logoImage"]]
       /\ UNCHANGED <<activeTab, qrOptions, generatedQRs, currentQR, isScanning, cameraVars, uploads,
                      logoFile, logoDataUrl, reading, forms>>

\* logoImage.onload for run i (lines 198-208): the logo is drawn and the
\* canvas, as it is by now, becomes the run's data URL
logoImageOnload ==
    \E i \in 1..Len(runs) :
       /\ runs[i].pos = "logoImage"
       /\ canvas' = [canvas EXCEPT !.logo = TRUE]
       /\ Finish(i, canvas')
       /\ UNCHANGED <<activeTab, qrOptions, isScanning, cameraVars, uploads, logoFile, logoDataUrl,
                      reading, forms>>

\* the logo image fails to load for run i (lines 197-209): no onerror handler
\* is set and the promise of overlayLogo has no reject, so nothing runs and
\* the run stays suspended at `await overlayLogo()`
logoImageOnerror ==
    \E i \in 1..Len(runs) :
       /\ runs[i].pos = "logoImage"
       /\ runs' = [runs EXCEPT ![i] = [runs[i] EXCEPT !.pos = "stalled"]]
       /\ UNCHANGED <<activeTab, qrOptions, generatedQRs, currentQR, isScanning,
                      cameraVars, uploads, logoFile, logoDataUrl, reading, forms,
                      canvas>>

\* a click on a picture of the history (line 960)
selectFromHistory ==
    /\ \E k \in 1..Len(generatedQRs) : currentQR' = generatedQRs[k].dataUrl
    /\ UNCHANGED <<activeTab, qrOptions, generatedQRs, isScanning, cameraVars, uploads, logoFile,
                   logoDataUrl, reading, forms, canvas, runs>>

(***************************************************************************)
(* handleCSVUpload (part_000 lines 267-300).                               *)
(*                                                                         *)
(* A call is an upload with a position: it waits at `await file.text()`    *)
(* and, for each row with data, at the awaits of generateQR.               *)
(***************************************************************************)
\* the code units String.prototype.trim removes
WhiteSpace ==
    {9, 10, 11, 12, 13, 32, 160, 5760, 8232, 8233, 8239, 8287, 12288, 65279}
       \cup (8192..8202)

\* s.trim()
RECURSIVE trim(_)
trim(s) ==
    IF s = <<>> THEN s
    ELSE IF Head(s) \in WhiteSpace THEN trim(Tail(s))
    ELSE IF s[Len(s)] \in WhiteSpace THEN trim(SubSeq(s, 1, Len(s) - 1))
    ELSE s

\* number of code units of s before the first sep (Len(s) when there is none)
RECURSIVE indexOf(_, _)
indexOf(s, sep) ==
    IF s = <<>> \/ Head(s) = sep THEN 0 ELSE 1 + indexOf(Tail(s), sep)

\* s.split(sep) for a separator of one code unit
RECURSIVE split(_, _)
split(s, sep) ==
    LET n == indexOf(s, sep) IN
    IF n = Len(s) THEN <<s>>
    ELSE <<SubSeq(s, 1, n)>> \o split(SubSeq(s, n + 2, Len(s)), sep)

\* parts.join(sep)
RECURSIVE join(_, _)
join(parts, sep) ==
    IF parts = <<>> THEN <<>>
    ELSE IF Len(parts) = 1 THEN parts[1]
    ELSE parts[1] \o <<sep>> \o join(Tail(parts), sep)

\* lines.filter((line) => line.trim())
RECURSIVE filterNonBlank(_)
filterNonBlank(lines) ==
    IF lines = <<>> THEN <<>>
    ELSE IF trim(Head(lines)) # <<>> THEN <<Head(lines)>> \o filterNonBlank(Tail(lines))
    ELSE filterNonBlank(Tail(lines))

\* line 274: the non-blank lines of the file
csvLines(text) == filterNonBlank(split(text, 10))

\* lines.slice(1)
slice1(list) == IF list = <<>> THEN <<>> ELSE Tail(list)

\* the data of a line taken to be its second column alone
csvData_SecondColumn(line) ==
    IF Len(split(line, 44)) < 2 THEN <<>> ELSE trim(split(line, 44)[2])

\* lines 279-280: the type and the data of a line
csvType(line) == split(line, 44)[1]
csvData(line) == trim(join(Tail(split(line, 44)), 44))

\* the first column spelled as a string (`type as QRType` checks nothing)
StringOf(codes) ==
    CASE codes = <<117, 114, 108>> -> "url"
      [] codes = <<116, 101, 120, 116>> -> "text"
      [] codes = <<116>> -> "t"
      [] codes = <<32>> -> " "
      [] codes = <<120>> -> "x"
      [] OTHER -> "?"

\* a file with a blank first line, a header, a blank line, a row, a row with
\* an empty data part, a row without a comma, and a row with a comma and
\* spaces in its data: "\nt,d\n\nurl,a\n ,\nx\ntext, b,c \n"
MixedFile ==
    <<10, 116, 44, 100, 10, 10, 117, 114, 108, 44, 97, 10, 32, 44, 10, 120, 10,
      116, 101, 120, 116, 44, 32, 98, 44, 99, 32, 10>>

\* a file with a header and eleven rows "t,a"
ElevenRows == <<104, 10>> \o join([k \in 1..11 |-> <<116, 44, 97>>], 10)

\* the files a user is taken to choose
CsvFiles == {MixedFile, ElevenRows}

\* the rows from the first row that has data on (line 282)
RECURSIVE fromFirstWithData(_)
fromFirstWithData(rows) ==
    IF rows = <<>> THEN <<>>
    ELSE IF csvData(Head(rows)) # <<>> THEN rows
    ELSE fromFirstWithData(Tail(rows))

\* handleCSVUpload up to `await file.text()` (lines 267-273); without a file
\* it returns at once.  The handler and the generateQR it calls close over
\* the qrOptions and logoDataUrl of the render the event was handled in.
handleCSVUpload ==
    /\ \/ uploads' = Append(uploads, [pos |-> "done", result |-> "nofile",
                                       text |-> <<>>, rows |-> <<>>, type |-> "",
                                       data |-> <<>>, batchQRs |-> <<>>, failed |-> 0,
                                       options |-> qrOptions, logo |-> logoDataUrl,
                                       dataUrl |-> NoDataUrl])
       \/ \E text \in CsvFiles :
             uploads' = Append(uploads, [pos |-> "reading", result |-> "",
                                         text |-> text, rows |-> <<>>, type |-> "",
                                         data |-> <<>>, batchQRs |-> <<>>, failed |-> 0,
                                         options |-> qrOptions, logo |-> logoDataUrl,
                                         dataUrl |-> NoDataUrl])
    /\ UNCHANGED <<activeTab, qrOptions, generatedQRs, currentQR, isScanning,
                   cameraVars, logoFile, logoDataUrl, reading, forms, canvas, runs>>

\* the loop of lines 277-299 for upload u from `rows` on, up to the next
\* `await generateQR(data)`: rows without data are passed over; after the
\* last row the batch is put in front of the history
Loop(u, rows, batchQRs, failed) ==
    LET rest == fromFirstWithData(rows) IN
    IF rest = <<>>
    THEN /\ generatedQRs' = batchQRs \o generatedQRs
         /\ uploads' = [uploads EXCEPT ![u] =
               [uploads[u] EXCEPT !.pos = "done", !.result = "ok",
                                  !.rows = <<>>, !.batchQRs = batchQRs,
                                  !.failed = failed]]
    ELSE /\ uploads' = [uploads EXCEPT ![u] =
               [uploads[u] EXCEPT !.pos = "rendering", !.rows = Tail(rest),
                                  !.type = StringOf(csvType(Head(rest))),
                                  !.data = csvData(Head(rest)),
                                  !.batchQRs = batchQRs, !.failed = failed]]
         /\ UNCHANGED generatedQRs

\* lines 285-291: the entry pushed for the row upload u has rendered
batchEntry(u, dataUrl) ==
    [type |-> uploads[u].type, data |-> uploads[u].data, dataUrl |-> dataUrl,
     options |-> uploads[u].options]

\* file.text() settles for upload u (lines 273-277): a rejection ends the
\* handler, which rejects; else the lines after the first are gone through
fileTextSettled ==
    \E u \in 1..Len(uploads) :
       /\ uploads[u].pos = "reading"
       /\ \/ /\ uploads' = [uploads EXCEPT ![u] =
                  [uploads[u] EXCEPT !.pos = "done", !.result = "rejected"]]
             /\ UNCHANGED generatedQRs
          \/ Loop(u, slice1(csvLines(uploads[u].text)), <<>>, 0)
       /\ UNCHANGED <<activeTab, qrOptions, currentQR, isScanning, cameraVars,
                      logoFile, logoDataUrl, reading, forms, canvas, runs>>

\* rows of uploads whose rendering was rejected so far
RECURSIVE SumFailed(_)
SumFailed(k) == IF k = 0 THEN 0 ELSE uploads[k].failed + SumFailed(k - 1)
RowFailures == SumFailed(Len(uploads))

\* QRCode.toDataURL settles for the row of upload u (lines 171-182, 283-296):
\* a rejection is logged and the loop goes on; with a logo overlayLogo starts
csvToDataURLSettled ==
    \E u \in 1..Len(uploads) :
       /\ uploads[u].pos = "rendering"
       /\ \/ /\ RowFailures < MaxFailures
             /\ Loop(u, uploads[u].rows, uploads[u].batchQRs, uploads[u].failed + 1)
             /\ UNCHANGED canvas
          \/ LET dataUrl == [qr |-> <<uploads[u].data, uploads[u].options>>,
                             logo |-> FALSE]
             IN IF uploads[u].logo # ""
                THEN /\ canvas' = [qr |-> <<>>, logo |-> FALSE]
                     /\ uploads' = [uploads EXCEPT ![u] =
                           [uploads[u] EXCEPT !.pos = "qrImage", !.dataUrl = dataUrl]]
                     /\ UNCHANGED generatedQRs
                ELSE /\ Loop(u, uploads[u].rows,
                             Append(uploads[u].batchQRs, batchEntry(u, dataUrl)),
                             uploads[u].failed)
                     /\ UNCHANGED canvas
       /\ UNCHANGED <<activeTab, qrOptions, currentQR, isScanning, cameraVars,
                      logoFile, logoDataUrl, reading, forms, runs>>

\* qrImage.onload for the row of upload u (lines 194-210)
csvQrImageOnload ==
    \E u \in 1..Len(uploads) :
       /\ uploads[u].pos = "qrImage"
       /\ canvas' = [canvas EXCEPT !.qr = uploads[u].dataUrl.qr]
       /\ uploads' = [uploads EXCEPT ![u] = [uploads[u] EXCEPT !.pos = "logoImage"]]
       /\ UNCHANGED <<activeTab, qrOptions, generatedQRs, currentQR, isScanning,
                      cameraVars, logoFile, logoDataUrl, reading, forms, runs>>

\* logoImage.onload for the row of upload u (lines 198-208, 285-291)
csvLogoImageOnload ==
    \E u \in 1..Len(uploads) :
       /\ uploads[u].pos = "logoImage"
       /\ canvas' = [canvas EXCEPT !.logo = TRUE]
       /\ Loop(u, uploads[u].rows, Append(uploads[u].batchQRs, batchEntry(u, canvas')),
               uploads[u].failed)
       /\ UNCHANGED <<activeTab, qrOptions, currentQR, isScanning, cameraVars,
                      logoFile, logoDataUrl, reading, forms, runs>>

\* the logo image fails to load for the row of upload u (lines 197-209)
csvLogoImageOnerror ==
    \E u \in 1..Len(uploads) :
       /\ uploads[u].pos = "logoImage"
       /\ uploads' = [uploads EXCEPT ![u] = [uploads[u] EXCEPT !.pos = "stalled"]]
       /\ UNCHANGED <<activeTab, qrOptions, generatedQRs, currentQR, isScanning,
                      cameraVars, logoFile, logoDataUrl, reading, forms, canvas, runs>>

(***************************************************************************)
(* The scanner card (part_000 lines 302-323, 910-934).                     *)
(***************************************************************************)
\* videoRef.current is the video element when it is mounted, else null; the
\* element is rendered in the isScanning branch of the card only (line 910)
videoMounted == isScanning

\* startScanning up to `await getUserMedia()` (lines 302-306)
startScanning ==
    /\ pending' = pending + 1
    /\ UNCHANGED <<activeTab, qrOptions, generatedQRs, currentQR, isScanning, streams,
                   srcObject, uploads, logoFile, logoDataUrl, reading, forms, canvas,
                   runs>>

\* getUserMedia settles (lines 304-314): a rejection is logged; a stream is
\* attached, and isScanning set, if videoRef.current is not null
getUserMediaSettled ==
    /\ pending > 0
    /\ pending' = pending - 1
    /\ \/ UNCHANGED <<streams, srcObject, isScanning>>
       \/ /\ streams' = Append(streams, [stopped |-> FALSE, attached |-> videoMounted])
          /\ IF videoMounted
             THEN srcObject' = Len(streams) + 1 /\ isScanning' = TRUE
             ELSE UNCHANGED <<srcObject, isScanning>>
    /\ UNCHANGED <<activeTab, qrOptions, generatedQRs, currentQR, uploads, logoFile,
                   logoDataUrl, reading, forms, canvas, runs>>

\* stopScanning (lines 317-323): the tracks of the attached stream are
\* stopped; isScanning becomes false, which unmounts the video element
stopScanning ==
    /\ IF srcObject # 0
       THEN streams' = [streams EXCEPT ![srcObject].stopped = TRUE]
       ELSE UNCHANGED streams
    /\ isScanning' = FALSE
    /\ srcObject' = 0
    /\ UNCHANGED <<activeTab, qrOptions, generatedQRs, currentQR, pending, uploads,
                   logoFile, logoDataUrl, reading, forms, canvas, runs>>

\* a click on the button of the scanner card (lines 910-932): "Start
\* Scanning" is rendered while isScanning is false, "Stop Scanning" while true
scannerButton == IF ~isScanning THEN startScanning ELSE stopScanning

Init ==
    /\ AppInit
    /\ events = 0
    /\ inType = "url"
    /\ inData = defaultValues["url"]
    /\ calls = <<>>

\* a user event: dispatched when no promise job is pending
UserEvent(A) ==
    /\ NoneValidating
    /\ events < MaxEvents
    /\ events' = events + 1
    /\ A
    /\ UNCHANGED encVars

\* the continuation of a run after form.trigger(): a promise job
PromiseJob(A) == A /\ UNCHANGED harnessVars

\* the settling of something a run or a reader waits for in a later task
Settled(A) == NoneValidating /\ A /\ UNCHANGED harnessVars

Next ==
    \/ UserEvent(editForm)
    \/ UserEvent(setActiveTab)
    \/ UserEvent(setSize)
    \/ UserEvent(handleLogoUpload)
    \/ UserEvent(handleGenerate)
    \/ UserEvent(selectFromHistory)
    \/ Settled(readerOnload)
    \/ PromiseJob(validationSettled)
    \/ Settled(toDataURLSettled)
    \/ Settled(qrImageOnload)
    \/ Settled(logoImageOnload)
    \/ Settled(logoImageOnerror)

Spec == Init /\ [][Next]_vars

\* Spec with the scheduling the platform guarantees: a promise job runs, a
\* promise of QRCode.toDataURL settles, a FileReader finishes, and an image
\* whose src was set fires load or error.  Nothing is assumed of the user.
SpecFair ==
    /\ Init /\ [][Next]_vars
    /\ WF_vars(PromiseJob(validationSettled))
    /\ WF_vars(Settled(toDataURLSettled))
    /\ WF_vars(Settled(qrImageOnload))
    /\ WF_vars(Settled(logoImageOnload) \/ Settled(logoImageOnerror))
    /\ WF_vars(Settled(readerOnload))

\* The application with the scanner card and the tabs in use.
ScanNext ==
    \/ UserEvent(scannerButton)
    \/ UserEvent(setActiveTab)
    \/ Settled(getUserMediaSettled)

SpecScan == Init /\ [][ScanNext]_vars

\* handleGenerate and handleCSVUpload calls that have not ended
InFlight ==
    Cardinality({i \in 1..Len(runs) : runs[i].pos \notin {"done", "stalled"}})
      + Cardinality({u \in 1..Len(uploads) : uploads[u].pos \notin {"done", "stalled"}})

\* a user event of a behaviour with bulk uploads
CsvEvent(A) == events < MaxCsvEvents /\ UserEvent(A)

\* a call started when no other call is going on (calls made at once are
\* what Spec is about)
Start(A) == InFlight = 0 /\ CsvEvent(A)

\* The application with bulk uploads: the url form, single generations, the
\* logo, and handleCSVUpload.
CsvNext ==
    \/ CsvEvent(editForm)
    \/ CsvEvent(handleLogoUpload)
    \/ Start(handleGenerate)
    \/ Start(handleCSVUpload)
    \/ Settled(readerOnload)
    \/ PromiseJob(validationSettled)
    \/ Settled(toDataURLSettled)
    \/ Settled(qrImageOnload)
    \/ Settled(logoImageOnload)
    \/ Settled(logoImageOnerror)
    \/ Settled(fileTextSettled)
    \/ Settled(csvToDataURLSettled)
    \/ Settled(csvQrImageOnload)
    \/ Settled(csvLogoImageOnload)
    \/ Settled(csvLogoImageOnerror)

SpecCsv == Init /\ [][CsvNext]_vars

(***************************************************************************)
(* Claims about the encoder, checked under SpecEnc.                        *)
(***************************************************************************)
\* the first call of the harness has been made, for a field set of type t
Called(t) == Len(calls) >= 1 /\ calls[1].type = t

\* lines joined by single line feeds
RECURSIVE JoinLines(_)
JoinLines(lines) ==
    IF Len(lines) = 1 THEN lines[1]
    ELSE lines[1] \o <<10>> \o JoinLines(Tail(lines))

\* a string-or-undefined as a string
Text(x) == IF x = Undefined THEN <<>> ELSE x

\* C1: a url that starts with lowercase "http://" or "https://" is returned
\* unchanged, and every other url (an upper- or mixed-case scheme included) is
\* returned with "https://" put in front; nothing else is changed.
C1_UrlPrefix ==
    Called("url") =>
        LET u == calls[1].data.url
            hasScheme ==
                \E p \in {<<104, 116, 116, 112, 58, 47, 47>>,
                          <<104, 116, 116, 112, 115, 58, 47, 47>>} :
                    /\ Len(u) >= Len(p)
                    /\ \A i \in 1..Len(p) : u[i] = p[i]
        IN /\ ~calls[1].out.threw
           /\ hasScheme => calls[1].out.value = u
           /\ ~hasScheme =>
                calls[1].out.value = <<104, 116, 116, 112, 115, 58, 47, 47>> \o u

\* a url with the scheme "HTTP://" or "Https://" has been encoded
C1_Witness ==
    /\ Called("url")
    /\ Len(calls[1].data.url) > 8
    /\ calls[1].data.url[1] = 72
    /\ calls[1].out.value[1] = 104

\* C2: the wifi payload is WIFI:T:<security>;S:<ssid>;P:<password>;H:<hidden>;;
\* with ssid and password verbatim (no escaping), an absent password empty,
\* and hidden the text "true" or "false".
C2_WifiFormat ==
    Called("wifi") =>
        LET f == calls[1].data
            h == IF f.hidden = "true" THEN <<116, 114, 117, 101>>
                 ELSE <<102, 97, 108, 115, 101>>
        IN calls[1].out =
             [threw |-> FALSE,
              value |-> <<87, 73, 70, 73, 58, 84, 58>> \o f.security \o <<59, 83, 58>>
                        \o f.ssid \o <<59, 80, 58>> \o Text(f.password)
                        \o <<59, 72, 58>> \o h \o <<59, 59>>]

\* a wifi field set with a backslash in the ssid, a ':' or ',' in the password
\* and hidden true has been encoded
C2_Witness ==
    /\ Called("wifi")
    /\ \E i \in 1..Len(calls[1].data.ssid) : calls[1].data.ssid[i] \in {92, 59}
    /\ calls[1].data.password # Undefined
    /\ \E i \in 1..Len(calls[1].data.password) : calls[1].data.password[i] \in {58, 44}
    /\ calls[1].data.hidden = "true"

\* C3: the contact payload is the eight lines BEGIN:VCARD, VERSION:3.0, FN:,
\* ORG:, TEL:, EMAIL:, URL:, END:VCARD in that order; an empty or absent
\* optional field gives a line with an empty value, and FN always has one
\* space after firstName.
C3_ContactFormat ==
    Called("contact") =>
        LET f == calls[1].data IN
        calls[1].out =
          [threw |-> FALSE,
           value |-> JoinLines(<<
              <<66, 69, 71, 73, 78, 58, 86, 67, 65, 82, 68>>,
              <<86, 69, 82, 83, 73, 79, 78, 58, 51, 46, 48>>,
              <<70, 78, 58>> \o f.firstName \o <<32>> \o Text(f.lastName),
              <<79, 82, 71, 58>> \o Text(f.organization),
              <<84, 69, 76, 58>> \o Text(f.phone),
              <<69, 77, 65, 73, 76, 58>> \o Text(f.email),
              <<85, 82, 76, 58>> \o Text(f.url),
              <<69, 78, 68, 58, 86, 67, 65, 82, 68>> >>)]

\* a contact with an absent lastName, an empty organization and an absent url
\* has been encoded
C3_Witness ==
    /\ Called("contact")
    /\ calls[1].data.firstName # EmptyStr
    /\ calls[1].data.lastName = Undefined
    /\ calls[1].data.organization = EmptyStr
    /\ calls[1].data.url = Undefined
    /\ calls[1].data.phone # EmptyStr /\ calls[1].data.phone # Undefined

\* URI-component percent-encoding of the characters the field sets are drawn
\* from, read off the UTF-8 tables; a surrogate that has no partner stands for
\* U+FFFD, as in every conversion of a string to UTF-8
RECURSIVE Pct(_)
Pct(s) ==
    IF s = <<>> THEN <<>>
    ELSE IF Len(s) >= 2 /\ s[1] = 55357 /\ s[2] = 56832
         THEN <<37, 70, 48, 37, 57, 70, 37, 57, 56, 37, 56, 48>>   \* %F0%9F%98%80
              \o Pct(Tail(Tail(s)))
    ELSE (CASE s[1] = 97 -> <<97>>
            [] s[1] = 32 -> <<37, 50, 48>>                          \* %20
            [] s[1] = 38 -> <<37, 50, 54>>                          \* %26
            [] s[1] = 233 -> <<37, 67, 51, 37, 65, 57>>             \* %C3%A9
            [] s[1] = 8364 -> <<37, 69, 50, 37, 56, 50, 37, 65, 67>> \* %E2%82%AC
            [] s[1] \in {55357, 56832} ->
                 <<37, 69, 70, 37, 66, 70, 37, 66, 68>>)            \* %EF%BF%BD
         \o Pct(Tail(s))

\* every surrogate of s has its partner
WellFormed(s) ==
    \A i \in 1..Len(s) :
       /\ s[i] = 55357 => i < Len(s) /\ s[i + 1] = 56832
       /\ s[i] = 56832 => i > 1 /\ s[i - 1] = 55357

\* C4: the email payload is mailto:<email>?subject=<pct subject>&body=<pct body>
\* for every email field set, the address not encoded and both parameters
\* always present.
C4_EmailFormat ==
    Called("email") =>
        LET f == calls[1].data IN
        calls[1].out =
          [threw |-> FALSE,
           value |-> <<109, 97, 105, 108, 116, 111, 58>> \o f.email
                     \o <<63, 115, 117, 98, 106, 101, 99, 116, 61>> \o Pct(Text(f.subject))
                     \o <<38, 98, 111, 100, 121, 61>> \o Pct(Text(f.body))]

\* C4, where it holds: the same for the field sets whose subject and body are
\* well-formed UTF-16
C4_EmailFormatWellFormed ==
    (/\ Called("email")
     /\ WellFormed(Text(calls[1].data.subject))
     /\ WellFormed(Text(calls[1].data.body))) => C4_EmailFormat

\* C5: the sms payload is sms:<phone> when message is empty or absent and
\* sms:<phone>?body=<pct message> otherwise, for every sms field set.
C5_SmsFormat ==
    Called("sms") =>
        LET f == calls[1].data IN
        calls[1].out =
          [threw |-> FALSE,
           value |-> IF Text(f.message) = <<>>
                     THEN <<115, 109, 115, 58>> \o f.phone
                     ELSE <<115, 109, 115, 58>> \o f.phone
                          \o <<63, 98, 111, 100, 121, 61>> \o Pct(f.message)]

\* C5, where it holds: the same for well-formed messages
C5_SmsFormatWellFormed ==
    (Called("sms") /\ WellFormed(Text(calls[1].data.message))) => C5_SmsFormat

\* C6: the text payload is the text verbatim, and encoding that output again
\* as text returns the same string.
C6_TextIdentity ==
    Called("text") =>
        /\ calls[1].out = [threw |-> FALSE, value |-> calls[1].data.text]
        /\ (Len(calls) = 2 /\ calls[2].kind = "re") =>
              /\ calls[2].data.text = calls[1].out.value
              /\ calls[2].out = calls[1].out

\* a text that ends in a blank or a line feed has been encoded twice over
C6_Witness ==
    /\ Called("text")
    /\ Len(calls) = 2 /\ calls[2].kind = "re"
    /\ Len(calls[1].data.text) = MaxLen
    /\ calls[1].data.text[MaxLen] \in {32, 10}

\* C7: a field set with an optional field absent encodes exactly as the same
\* field set with that field empty (false for hidden).
C7_AbsentAsEmpty ==
    (Len(calls) = 2 /\ calls[2].kind = "empty") => calls[2].out = calls[1].out

\* both calls have been made for a field set that differs in one optional
\* field, and returned
C7_Witness ==
    /\ Len(calls) = 2 /\ calls[2].kind = "empty"
    /\ calls[2].data # calls[1].data
    /\ \E f \in OptionalFields(inType) :
          /\ IsAbsent(calls[1].data, f)
          /\ calls[2].data = WithEmpty(calls[1].data, f)
    /\ ~calls[2].out.threw

\* C8: generateQRData returns for every field set its type's schema accepts.
C8_Total ==
    \A i \in 1..Len(calls) :
        Valid(calls[i].type, calls[i].data) => ~calls[i].out.threw

C14_NoSideEffects ==
    [][calls' # calls =>
          /\ UNCHANGED appVars
          /\ UNCHANGED <<inType, inData>>
          /\ Len(calls') = Len(calls) + 1
          /\ SubSeq(calls', 1, Len(calls)) = calls]_vars

\* a url without a scheme has been encoded twice, the application state
\* having changed in between, and the field set is still the one passed
C14_Witness ==
    /\ Len(calls) = 2 /\ calls[2].kind = "again" /\ calls[1].type = "url"
    /\ ~startsWith(calls[1].data.url, <<104, 116, 116, 112>>)
    /\ inData = calls[1].data /\ calls[2].data = inData
    /\ logoFile = "file"

\* C21: for every string u the output of generateQRData("url", {url: u})
\* starts with "http://" or "https://", and encoding that output again as a
\* url returns it unchanged.
C21_UrlIdempotent ==
    Called("url") =>
       /\ ~calls[1].out.threw
       /\ \/ startsWith(calls[1].out.value, <<104, 116, 116, 112, 58, 47, 47>>)
          \/ startsWith(calls[1].out.value, <<104, 116, 116, 112, 115, 58, 47, 47>>)
       /\ (Len(calls) = 2 /\ calls[2].kind = "re") =>
             /\ calls[2].data = [url |-> calls[1].out.value]
             /\ calls[2].out = calls[1].out

\* a url with the scheme cut short ("http:/" and no second slash) has been
\* prefixed, and the prefixed url has been encoded again
C21_Witness ==
    /\ Called("url") /\ Len(calls) = 2 /\ calls[2].kind = "re"
    /\ startsWith(calls[1].data.url, <<104, 116, 116, 112, 58, 47>>)
    /\ ~startsWith(calls[1].data.url, <<104, 116, 116, 112, 58, 47, 47>>)
    /\ calls[1].out.value # calls[1].data.url
    /\ calls[2].out.value = calls[1].out.value

(***************************************************************************)
(* Claims about handleGenerate, checked under Spec.                        *)
(***************************************************************************)
\* C10: in handleGenerate the encoder and the renderer are called only after
\* the form's validation succeeded, on a field set the schema accepts; a run
\* whose validation failed calls neither and leaves currentQR and the history
\* as they were.
C10_ValidationGates ==
    /\ [](\A i \in 1..Len(runs) :
             LET r == runs[i] IN
             /\ r.encoded => (r.isValid /\ Valid(r.type, r.formData))
             /\ r.rendered => (r.encoded /\ ~r.qrData.threw)
             /\ (~r.isValid /\ r.pos # "validating") =>
                   (r.pos = "done" /\ r.result = "invalid" /\ ~r.encoded /\ ~r.rendered))
    /\ [](\A k \in 1..Len(generatedQRs) :
             \E i \in 1..Len(runs) :
                /\ runs[i].isValid /\ runs[i].result = "ok"
                /\ generatedQRs[k].type = runs[i].type
                /\ generatedQRs[k].data = runs[i].qrData.value)
    /\ [][(\E i \in 1..Len(runs) :
              runs[i].pos = "validating" /\ ~runs[i].isValid /\ runs'[i].pos = "done")
           => UNCHANGED <<currentQR, generatedQRs>>]_vars

\* one run has returned at the validity test and another has reached the renderer
C10_Witness ==
    \E i, j \in 1..Len(runs) :
       /\ runs[i].result = "invalid" /\ runs[i].pos = "done"
       /\ runs[j].rendered /\ runs[j].type = runs[i].type

\* C11: in every handleGenerate run the string handed to generateQR, and by it
\* to QRCode.toDataURL, is the string generateQRData returns for the selected
\* type and the values the form holds when they are read, not altered on the
\* way: the run's qrData is that string when it reaches the renderer, and the
\* image QRCode.toDataURL resolves with is the image of that string.
C11_RendererGetsEncoderOutput ==
    /\ [][\A i \in 1..Len(runs) :
            (runs[i].pos = "validating" /\ runs'[i].pos = "rendering") =>
               /\ runs'[i].formData = forms[runs[i].type]
               /\ runs'[i].qrData = generateQRData(runs[i].type, forms[runs[i].type])]_vars
    /\ [][\A i \in 1..Len(runs) :
            (runs[i].pos = "rendering" /\ runs'[i].dataUrl # NoDataUrl) =>
               runs'[i].dataUrl.qr[1] = generateQRData(runs[i].type, runs[i].formData).value]_vars

\* a text with a trailing space has been rendered, space included
C11_Witness ==
    \E i \in 1..Len(runs) :
       /\ runs[i].type = "text" /\ runs[i].result = "ok" /\ runs[i].logo = ""
       /\ runs[i].formData.text = <<97, 32>>
       /\ runs[i].dataUrl.qr[1] = <<97, 32>>

\* run i ends in this step with its picture made
Completes(i) == runs[i].pos # "done" /\ runs'[i].pos = "done" /\ runs'[i].result = "ok"

\* C13 as stated: once a handleGenerate run has completed, no history entry
\* holds the payload it encoded; only the data URL is kept.
C13_PayloadDiscarded ==
    \A i \in 1..Len(runs) :
       runs[i].result = "ok" =>
          \A k \in 1..Len(generatedQRs) : generatedQRs[k].data # runs[i].qrData.value

\* C13 as amended: a run that completes keeps its payload: the entry it puts
\* at the head of the history holds the encoded string in `data`, next to
\* the data URL; currentQR holds the data URL alone.
C13_PayloadKeptInHistory ==
    [][\A i \in 1..Len(runs) :
          Completes(i) =>
             /\ generatedQRs'[1].data = runs[i].qrData.value
             /\ generatedQRs'[1].dataUrl = runs'[i].dataUrl
             /\ currentQR' = runs'[i].dataUrl]_vars

\* a run has completed and its payload is in the entry at the head
C13_Witness ==
    \E i \in 1..Len(runs) :
       /\ runs[i].result = "ok"
       /\ Len(generatedQRs) >= 1
       /\ generatedQRs[1].data = runs[i].qrData.value
       /\ generatedQRs[1].data # EmptyStr
       /\ currentQR = generatedQRs[1].dataUrl

\* the runs that have completed with a picture
Succeeded == {i \in 1..Len(runs) : runs[i].result = "ok"}

\* C16: when several handleGenerate runs are in flight at once and complete
\* in any order, no update is lost: every run that has succeeded has an entry
\* of its own in the history (as many entries as successes, while fewer than
\* ten runs have succeeded), and right after each completion currentQR is the
\* dataUrl of the head entry, which is the entry of the run that has just
\* completed.
C16_NoLostUpdate ==
    /\ [](/\ Len(generatedQRs) = Cardinality(Succeeded)
          /\ \A i \in Succeeded :
                \E k \in 1..Len(generatedQRs) :
                   /\ generatedQRs[k].type = runs[i].type
                   /\ generatedQRs[k].data = runs[i].qrData.value
                   /\ generatedQRs[k].dataUrl = runs[i].dataUrl
                   /\ generatedQRs[k].options = runs[i].options)
    /\ [][\A i \in 1..Len(runs) :
            Completes(i) =>
               /\ currentQR' = generatedQRs'[1].dataUrl
               /\ generatedQRs'[1].dataUrl = runs'[i].dataUrl
               /\ Len(generatedQRs') = Len(generatedQRs) + 1]_vars

\* two runs were rendering at once and the one started last completed first:
\* both have their entry, the head and currentQR are those of the first run
C16_Witness ==
    \E i, j \in 1..Len(runs) :
       /\ i < j
       /\ runs[i].result = "ok" /\ runs[j].result = "ok"
       /\ runs[i].qrData # runs[j].qrData
       /\ Len(generatedQRs) = 2
       /\ generatedQRs[1].data = runs[i].qrData.value
       /\ generatedQRs[2].data = runs[j].qrData.value
       /\ currentQR = runs[i].dataUrl

\* C17: when rendering fails inside handleGenerate the error is caught and
\* logged and the call returns without rejecting: the run ends as "failed",
\* only a throwing encoder makes a call reject, and the step in which the run
\* fails leaves currentQR and the history exactly as they were (no preview
\* without an entry, no entry without a preview).
C17_FailureLeavesNoTrace ==
    /\ [](\A i \in 1..Len(runs) :
             /\ runs[i].result = "rejected" => (~runs[i].rendered /\ runs[i].qrData.threw)
             /\ runs[i].result = "failed" => (runs[i].rendered /\ runs[i].pos = "done"))
    /\ [][\A i \in 1..Len(runs) :
            (runs[i].pos # "done" /\ runs[i].rendered
               /\ runs'[i].pos = "done" /\ runs'[i].result # "ok")
            => (runs'[i].result = "failed" /\ UNCHANGED <<currentQR, generatedQRs>>)]_vars

\* a rendering has failed while the preview shows an earlier picture
C17_Witness ==
    \E i \in 1..Len(runs) :
       /\ runs[i].result = "failed"
       /\ currentQR # NoDataUrl
       /\ Len(generatedQRs) >= 1

\* C18: every handleGenerate run that passes validation eventually finishes
\* (it updates currentQR and the history, or logs a failure), also when a
\* logo is set and an image fails to load during overlayLogo.
C18_EveryRunFinishes ==
    \A i \in 1..MaxEvents :
       (Len(runs) >= i /\ runs[i].isValid /\ runs[i].pos # "validating")
          ~> (Len(runs) >= i /\ runs[i].pos = "done")

(***************************************************************************)
(* Claims about the history and bulk uploads, checked under SpecCsv.       *)
(***************************************************************************)
\* C12: after any sequence of single generations and bulk uploads, in any
\* order, the history never holds more than 10 entries.
C12_HistoryCapped == Len(generatedQRs) <= 10

\* C15: a handleGenerate run whose validation and rendering succeed sets
\* currentQR to the new data URL and puts a new entry, with the run's type and
\* that data URL, at the head of the history, followed by the first 9 entries
\* of the previous history in their previous order: entry k of the previous
\* history is entry k + 1 afterwards for k <= 9, and the entries from the
\* tenth on, the oldest, are dropped.
C15_NewestFirst ==
    [][\A i \in 1..Len(runs) :
          Completes(i) =>
             /\ currentQR' = runs'[i].dataUrl
             /\ runs'[i].dataUrl # NoDataUrl
             /\ generatedQRs'[1].type = runs[i].type
             /\ generatedQRs'[1].dataUrl = runs'[i].dataUrl
             /\ Len(generatedQRs') = (IF Len(generatedQRs) < 9 THEN Len(generatedQRs) ELSE 9) + 1
             /\ \A k \in 1..(Len(generatedQRs') - 1) :
                   generatedQRs'[k + 1] = generatedQRs[k]]_vars

\* a run has completed on a history of more than nine entries (a bulk upload
\* of at least ten rows was there before): ten entries are left, the run's
\* at the head and the upload's first nine after it
C15_Witness ==
    \E i \in 1..Len(runs) : \E u \in 1..Len(uploads) :
       /\ runs[i].result = "ok"
       /\ uploads[u].result = "ok" /\ Len(uploads[u].batchQRs) >= 10
       /\ Len(generatedQRs) = 10
       /\ generatedQRs[1].dataUrl = runs[i].dataUrl
       /\ generatedQRs[1].data = runs[i].qrData.value
       /\ \A k \in 1..9 : generatedQRs[k + 1] = uploads[u].batchQRs[k]

\* the rows of a file that the claim says are rendered, in file order
ExpectedRows(text) ==
    IF text = MixedFile
    THEN <<[type |-> "url", data |-> <<97>>],
           [type |-> "text", data |-> <<98, 44, 99>>]>>
    ELSE [k \in 1..11 |-> [type |-> "t", data |-> <<97>>]]

\* a can be had from b by leaving entries out
RECURSIVE IsSubSeq(_, _)
IsSubSeq(a, b) ==
    IF a = <<>> THEN TRUE
    ELSE IF b = <<>> THEN FALSE
    ELSE IF Head(a) = Head(b) THEN IsSubSeq(Tail(a), Tail(b))
    ELSE IsSubSeq(a, Tail(b))

\* the type and data of the entries of a batch
TypeAndData(batchQRs) ==
    [k \in 1..Len(batchQRs) |-> [type |-> batchQRs[k].type, data |-> batchQRs[k].data]]

\* upload u ends in this step, its loop gone through
UploadCompletes(u) ==
    uploads[u].pos # "done" /\ uploads'[u].pos = "done" /\ uploads'[u].result = "ok"

\* C19: handleCSVUpload skips the first non-blank line as a header and every
\* row whose data part (all after the first comma, trimmed) is empty; it
\* renders the data of each other row as it is (not encoded, not validated);
\* a row that fails to render is passed over and the rows after it are still
\* rendered; at the end the rendered rows are put, in file order, in front of
\* the whole previous history; currentQR is not changed.
C19_BulkUpload ==
    /\ [](\A u \in 1..Len(uploads) :
             LET up == uploads[u] IN
             /\ up.pos \in {"rendering", "qrImage", "logoImage"} =>
                   /\ Len(up.batchQRs) + up.failed < Len(ExpectedRows(up.text))
                   /\ ExpectedRows(up.text)[Len(up.batchQRs) + up.failed + 1]
                         = [type |-> up.type, data |-> up.data]
             /\ up.pos \in {"qrImage", "logoImage"} => up.dataUrl.qr[1] = up.data
             /\ \A k \in 1..Len(up.batchQRs) :
                   up.logo = "" => up.batchQRs[k].dataUrl.qr[1] = up.batchQRs[k].data
             /\ IsSubSeq(TypeAndData(up.batchQRs), ExpectedRows(up.text))
             /\ up.result = "ok" =>
                   Len(up.batchQRs) + up.failed = Len(ExpectedRows(up.text)))
    /\ [][\A u \in 1..Len(uploads) :
            /\ UploadCompletes(u) => generatedQRs' = uploads'[u].batchQRs \o generatedQRs
            /\ uploads'[u] # uploads[u] => currentQR' = currentQR
            /\ (uploads'[u] # uploads[u] /\ ~UploadCompletes(u)) =>
                  generatedQRs' = generatedQRs]_vars

\* the mixed file has been uploaded on a history that was not empty: its
\* first row failed to render, its last row ("b,c", comma kept and spaces
\* trimmed) is at the head of the history, the older entries follow, and
\* the preview still shows an older picture
C19_Witness ==
    \E u \in 1..Len(uploads) :
       /\ uploads[u].text = MixedFile /\ uploads[u].result = "ok"
       /\ uploads[u].failed = 1
       /\ TypeAndData(uploads[u].batchQRs) = <<[type |-> "text", data |-> <<98, 44, 99>>]>>
       /\ Len(generatedQRs) >= 2
       /\ generatedQRs[1] = uploads[u].batchQRs[1]
       /\ currentQR # NoDataUrl
       /\ currentQR # generatedQRs[1].dataUrl

(***************************************************************************)
(* Claims about the scanner, checked under SpecScan.                       *)
(***************************************************************************)
\* C20: every stream that startScanning obtains is attached to the video
\* element, with isScanning true from then on until stopScanning, which
\* stops the stream's tracks: a stream obtained was attached, and it is
\* either the one on the video element while isScanning is true, or stopped.
C20_StreamsAttachedThenStopped ==
    \A k \in 1..Len(streams) :
       /\ streams[k].attached
       /\ streams[k].stopped \/ (isScanning /\ srcObject = k)

====
